---- MODULE Spec2Model ----
(***************************************************************************)
(* A model of slkrd (src/src/main.rs): the sender send_file, the receiver  *)
(* receive_file, the passcode functions, and the network and file system   *)
(* they act on; for two receivers on one host, a second receive_file that  *)
(* takes turns with the first.                                             *)
(* The SignalingServer of src/src/signaling.rs is modelled on its own.     *)
(*                                                                         *)
(* Strings are sequences of one-character strings.  A TCP stream carries   *)
(* tokens: "size" (the 8 little-endian bytes of the file size), "offer" /  *)
(* "answer" (a JSON session description that serde_json accepts), "junk"   *)
(* (bytes it rejects), "pass" (raw passcode bytes).  File contents and     *)
(* data channel messages are sequences of bytes.                           *)
(***************************************************************************)
EXTENDS Integers, Sequences, FiniteSets, TLC

VARIABLES
    pw,     \* the passcode functions' run: generate_passcode / validate_passcode
    snd,    \* send_file: its locals, its position, its result
    rcv,    \* receive_file: its locals, its position, its result
    net,    \* the sockets: datagrams, the TCP streams, the data channel
    disk,   \* the file systems: the source file, the receiver's directory
    other,  \* a second receive_file on the receiver's host, while not at its step
    sig     \* the SignalingServer (src/src/signaling.rs): its sessions map

vars == <<pw, snd, rcv, net, disk, other, sig>>

(***************************************************************************)
(* Bounds of the model.                                                    *)
(***************************************************************************)
\* The longest string typed as a passcode.
MaxTypedLen == 7
\* The longest source file, and the most bytes a foreign sender delivers.
MaxFileLen == 3
\* The sender's read buffer: BUFFER_SIZE (src/src/main.rs:20, 1 MiB) scaled down
\* so that files shorter than, equal to and longer than one buffer occur.
BUFFER_SIZE == 2
\* The configured chunk size: the default of Config (src/src/config.rs:13,
\* 64 KiB) on the same scale, smaller than the read buffer as it is there.
chunk_size == 1
\* The discovery broadcasts counted while send_file waits for a peer (the
\* counter saturates here).
MaxBroadcasts == 4
\* The connections foreign peers make to the sender's listener.
MaxForeignConns == 2
\* The times another process rewrites the source file while it is being sent.
MaxSrcEdits == 1
\* The addresses datagrams reach the signaling server from.
MaxAddrs == 3

(***************************************************************************)
(* Program constants.                                                      *)
(***************************************************************************)
PASSCODE_LENGTH == 6
MAX_RETRIES == 3

\* generate_passcode's CHARSET, b"0123456789".
CHARSET == <<"0", "1", "2", "3", "4", "5", "6", "7", "8", "9">>

\* char::is_ascii_digit
is_ascii_digit(c) == c \in {"0", "1", "2", "3", "4", "5", "6", "7", "8", "9"}

\* The UTF-8 width of a character: str::len counts bytes, not characters.
Utf8Width(c) == IF c = "é" THEN 2 ELSE 1

RECURSIVE str_len(_)
str_len(s) == IF s = <<>> THEN 0 ELSE Utf8Width(Head(s)) + str_len(Tail(s))

\* The mutant of validate_passcode that forgets the character test.
validate_passcode_LengthOnly(passcode) ==
    IF str_len(passcode) # PASSCODE_LENGTH THEN "InvalidPasscode" ELSE "Ok"

\* validate_passcode: Err(InvalidPasscode) when the byte length is not
\* PASSCODE_LENGTH or some character is not an ASCII digit.
validate_passcode(passcode) ==
    IF \/ str_len(passcode) # PASSCODE_LENGTH
       \/ ~(\A i \in 1..Len(passcode) : is_ascii_digit(passcode[i]))
    THEN "InvalidPasscode"
    ELSE "Ok"

(***************************************************************************)
(* The passcode functions on their own: a string is either built by        *)
(* generate_passcode, one rng draw per character, or typed by the          *)
(* operator, and is then handed to validate_passcode.                      *)
(***************************************************************************)
\* The indices rng.gen_range(0..CHARSET.len()) returns.
RngDraws == 0..(Len(CHARSET) - 1)

\* The characters the operator types.
TypedChars == {"0", "7", "a", "é"}

PwIdle == [pc |-> "idle", origin |-> "none", str |-> <<>>, result |-> "none"]

\* generate_passcode, one iteration of its map over 0..PASSCODE_LENGTH.
GenerateChar ==
    /\ pw.pc = "build" /\ pw.origin = "generate"
    /\ Len(pw.str) < PASSCODE_LENGTH
    /\ \E idx \in RngDraws :
          pw' = [pw EXCEPT !.str = Append(@, CHARSET[idx + 1])]
    /\ UNCHANGED <<snd, rcv, net, disk, other, sig>>

\* The operator types one more character of the receiver's argument.
TypeChar ==
    /\ pw.pc = "build" /\ pw.origin = "typed"
    /\ Len(pw.str) < MaxTypedLen
    /\ \E c \in TypedChars : pw' = [pw EXCEPT !.str = Append(@, c)]
    /\ UNCHANGED <<snd, rcv, net, disk, other, sig>>

\* The string is complete (collect() returned, or the operator hit return)
\* and validate_passcode runs on it.
Validate ==
    /\ pw.pc = "build"
    /\ pw.origin = "generate" => Len(pw.str) = PASSCODE_LENGTH
    /\ pw' = [pw EXCEPT !.pc = "validated", !.result = validate_passcode(pw.str)]
    /\ UNCHANGED <<snd, rcv, net, disk, other, sig>>

(***************************************************************************)
(* Values shared by the sender, the receiver and the network.              *)
(***************************************************************************)
Min(a, b) == IF a < b THEN a ELSE b

\* A Result: Ok, or Err of one SlkrdError; "none" while the function runs.
Res(kind) == [kind |-> kind, received |-> 0, expected |-> 0]
NoResult == Res("none")
Ok == Res("Ok")
IncompleteTransfer(received, expected) ==
    [kind |-> "IncompleteTransfer", received |-> received, expected |-> expected]

\* A file of n bytes: byte i has the value i, so order and position show.
Content(n) == [i \in 1..n |-> i]

\* A token of a TCP stream.
Tok(k, v) == [k |-> k, v |-> v]
OfferTok == Tok("offer", <<>>)
AnswerTok == Tok("answer", <<>>)
JunkTok == Tok("junk", <<>>)

\* u64::to_le_bytes: the 8 bytes of n, least significant first.
RECURSIVE LeDigits(_, _)
LeDigits(n, k) == IF k = 0 THEN <<>> ELSE <<n % 256>> \o LeDigits(n \div 256, k - 1)
to_le_bytes(n) == LeDigits(n, 8)

\* u64::from_le_bytes
RECURSIVE from_le_bytes(_)
from_le_bytes(b) == IF b = <<>> THEN 0 ELSE Head(b) + 256 * from_le_bytes(Tail(b))

\* Two passcodes generate_passcode can return, and two strings it cannot.
P1 == <<"4", "8", "2", "9", "1", "3">>
P2 == <<"1", "2", "3", "4", "5", "6">>
BadChar == <<"4", "8", "2", "9", "1", "a">>
TooShort == <<"4", "8">>

\* The file names the sender is started on.
SenderNames == {<<"f">>, <<"f", ":", "g">>}
\* The names that can exist in the receiver's working directory.
DirNames == {<<"f">>}

\* format!("SLKRD:{}:{}", passcode, filename)
SLKRD == <<"S", "L", "K", "R", "D", ":">>
Announcement(passcode, filename) == SLKRD \o passcode \o <<":">> \o filename

\* A datagram: the host it comes from and its text.
Dgram(from, text) == [from |-> from, text |-> text]
NoDgram == Dgram("none", <<>>)

\* The datagrams other hosts send to the discovery port.
ForeignDgrams ==
    { Dgram("foreign", t) : t \in
        { Announcement(P1, <<"f">>),
          Announcement(P2, <<"f">>),
          Announcement(P1, <<>>),
          Announcement(P1, <<"f", ":", "g">>),
          Announcement(P1 \o <<"7">>, <<"f">>),
          Announcement(SubSeq(P1, 1, 5), <<"f">>),
          Announcement(SubSeq(P1, 1, 5) \o <<"xFF">>, <<"f">>),
          SLKRD \o P1,
          <<"s", "l", "k", "r", "d", ":">> \o P1 \o <<":", "f">>,
          <<"h", "i">> } }

(***************************************************************************)
(* The network as the two programs find it.                                *)
(*   dgrams     the announcements the sender has broadcast                 *)
(*   listening  the sender's TcpListener is bound                          *)
(*   backlog    connections made to the listener and not yet accepted      *)
(*   toS        what the accepted stream's peer has written to the sender  *)
(*   toR        what the receiver's stream carries to it: the 8 size bytes *)
(*              (hdr), the tokens after them, end of stream, a reset       *)
(*   chan       the data channel messages sent and not yet delivered       *)
(*   faults     whether system and library calls may fail in this run      *)
(*   others     whether other hosts are on the network in this run         *)
(***************************************************************************)
FreshToS == [body |-> <<>>, eof |-> FALSE]
FreshToR == [hdr |-> <<>>, body |-> <<>>, eof |-> FALSE, reset |-> FALSE]

\* The sender's stream is dropped: its peer reads end of stream.
DropStream(n, peer) ==
    IF peer = "recv" THEN [n EXCEPT !.toR.eof = TRUE] ELSE n

\* send_file returns: stream, listener, sockets and channel are dropped; a
\* connection still waiting in the backlog is reset.
DropAll(n, peer) ==
    LET m == DropStream(n, peer) IN
    [m EXCEPT !.listening = FALSE,
              !.backlog = {},
              !.toR.reset = @ \/ ("recv" \in n.backlog)]

\* discovery_socket.send_to(message, 255.255.255.255:DISCOVERY_PORT)
Broadcast(n, s) ==
    [n EXCEPT !.dgrams = @ \cup {Dgram("send", Announcement(s.passcode, s.filename))}]

(***************************************************************************)
(* send_file.                                                              *)
(*   pc: start -> listen (the top of the retry loop) -> accepted -> answer *)
(*       (read_to_end) -> chunks (the read/send loop) -> listen | done      *)
(*   wrote, sent, events: what this session wrote on its stream, handed to *)
(*   its data channel, and reported to print_progress; presented: what the *)
(*   peer had written on the stream when the size was written; bcasts: the *)
(*   broadcasts that found no peer, since the start or the last session.   *)
(***************************************************************************)
SReturn(s, result) == [s EXCEPT !.pc = "done", !.result = result]

\* The passcodes generate_passcode returns in these runs.
GeneratedPasscodes == {P1}

\* Lines 198-217: the existence test, the passcode, the sockets, the file.
SStart ==
    /\ snd.pc = "start"
    /\ \/ /\ ~disk.src.exists
          /\ snd' = SReturn(snd, Res("FileNotFound"))
          /\ net' = net
       \/ /\ disk.src.exists
          /\ net.faults
          /\ snd' = SReturn(snd, Res("TransferError"))
          /\ net' = net
       \/ /\ disk.src.exists
          /\ \E p \in GeneratedPasscodes :
                snd' = [snd EXCEPT !.pc = "listen", !.passcode = p,
                                   !.file_size = Len(disk.src.data),
                                   !.pos = 0, !.retries = 0]
          /\ net' = [net EXCEPT !.listening = TRUE]
    /\ UNCHANGED <<pw, rcv, disk, other, sig>>

\* Line 220: the retry budget is spent, the loop ends, Err(ConnectionFailed).
SGiveUp ==
    /\ snd.pc = "listen"
    /\ ~(snd.retries < MAX_RETRIES)
    /\ snd' = SReturn(snd, Res("ConnectionFailed"))
    /\ net' = DropAll(net, "none")
    /\ UNCHANGED <<pw, rcv, disk, other, sig>>

\* One more broadcast after which accept returned no connection.
Counted(s) == [s EXCEPT !.bcasts = Min(@ + 1, MaxBroadcasts)]

\* Lines 221-226: broadcast, then accept returns a connection.
SAccept ==
    /\ snd.pc = "listen"
    /\ snd.retries < MAX_RETRIES
    /\ \E c \in net.backlog :
          /\ snd' = [snd EXCEPT !.pc = "accepted", !.peer = c, !.bcasts = 0,
                                 !.wrote = <<>>, !.sent = <<>>,
                                 !.events = <<>>, !.presented = <<>>,
                                 !.sessions = @ + 1]
          /\ net' = [Broadcast(net, snd) EXCEPT
                        !.backlog = @ \ {c},
                        !.toS = [FreshToS EXCEPT !.eof = (c = "recv" /\ net.rgone)]]
    /\ UNCHANGED <<pw, rcv, disk, other, sig>>

\* Lines 221-222, 263-266: broadcast, accept finds no connection pending
\* (WouldBlock), sleep and go round again; retries is not touched.
SWouldBlock ==
    /\ snd.pc = "listen"
    /\ snd.retries < MAX_RETRIES
    /\ net.backlog = {}
    /\ snd' = Counted(snd)
    /\ net' = Broadcast(net, snd)
    /\ UNCHANGED <<pw, rcv, disk, other, sig>>

\* Lines 221-222, 267-271: the broadcast fails (Err through ?), or accept
\* fails with another error and retries is counted up.
SAcceptError ==
    /\ snd.pc = "listen"
    /\ snd.retries < MAX_RETRIES
    /\ net.faults
    /\ \/ /\ snd' = SReturn(snd, Res("TransferError"))
          /\ net' = DropAll(net, "none")
       \/ /\ snd' = [Counted(snd) EXCEPT !.retries = @ + 1]
          /\ net' = Broadcast(net, snd)
    /\ UNCHANGED <<pw, rcv, disk, other, sig>>

\* The mutant of HandshakeWrites that writes the size after the offer.
HandshakeWrites_OfferFirst(size) == <<OfferTok, size>>

\* Lines 230, 237: what the sender writes on the accepted stream, in order.
HandshakeWrites(size) == <<size, OfferTok>>

\* Lines 227-237: the channel, the file size, the offer.
SHandshake ==
    /\ snd.pc = "accepted"
    /\ LET size == Tok("size", to_le_bytes(snd.file_size))
           w == HandshakeWrites(size)
       IN
       \/ /\ net.faults            \* WebRTCChannel::new or the first write fails
          /\ \E e \in {"ConnectionFailed", "TransferError"} :
                snd' = SReturn(snd, Res(e))
          /\ net' = DropAll(net, snd.peer)
       \/ /\ net.faults            \* create_offer or the second write fails
          /\ \E e \in {"ConnectionFailed", "TransferError"} :
                snd' = [SReturn(snd, Res(e)) EXCEPT !.wrote = <<w[1]>>,
                                                    !.presented = net.toS.body]
          /\ net' = DropAll(IF snd.peer = "recv"
                               THEN [net EXCEPT !.toR.hdr = w[1].v] ELSE net,
                            snd.peer)
       \/ /\ snd' = [snd EXCEPT !.pc = "answer", !.wrote = w,
                                 !.presented = net.toS.body]
          /\ net' = IF snd.peer = "recv"
                       THEN [net EXCEPT !.toR.hdr = w[1].v,
                                        !.toR.body = Tail(w)]
                       ELSE net
    /\ UNCHANGED <<pw, rcv, disk, other, sig>>

\* serde_json::from_slice::<RTCSessionDescription>(&answer_buf) succeeds.
ParsesAsDescription(buf, tok) == buf = <<tok>>

\* Lines 240-248: read_to_end returns at end of stream; the answer is parsed
\* and set; a buffer that is no session description is Err(ConnectionFailed).
\* read_to_end itself fails when the connection is reset, or with WouldBlock
\* where the accepted socket inherits the listener's non-blocking mode.
SAnswer ==
    /\ snd.pc = "answer"
    /\ \/ /\ net.toS.eof
          /\ ParsesAsDescription(net.toS.body, AnswerTok)
          /\ snd' = [snd EXCEPT !.pc = "chunks", !.transferred = 0]
          /\ net' = net
       \/ /\ net.toS.eof
          /\ \/ ~ParsesAsDescription(net.toS.body, AnswerTok)
             \/ net.faults          \* set_remote_description fails
          /\ snd' = SReturn(snd, Res("ConnectionFailed"))
          /\ net' = DropAll(net, snd.peer)
       \/ /\ net.faults
          /\ \E e \in {"TransferError", "Timeout"} : snd' = SReturn(snd, Res(e))
          /\ net' = DropAll(net, snd.peer)
    /\ UNCHANGED <<pw, rcv, disk, other, sig>>

\* file.read(&mut buffer): the byte counts it can return at cursor pos.
ReadCounts(file, pos) ==
    IF pos >= Len(file) THEN {0} ELSE 1..Min(BUFFER_SIZE, Len(file) - pos)

\* The mutant of SendComplete that accepts a surplus.
SendComplete_AtLeast(transferred, file_size) == transferred >= file_size

\* Line 258: the test that makes send_file return Ok.
SendComplete(transferred, file_size) == transferred = file_size

\* Lines 258-262 and the end of the match arm: Ok when the count matches,
\* otherwise the stream is dropped and the retry loop goes round again.
SLoopExit(s, n) ==
    IF SendComplete(s.transferred, s.file_size)
    THEN <<SReturn(s, Ok), DropAll(n, s.peer)>>
    ELSE <<[s EXCEPT !.pc = "listen", !.peer = "none"], DropStream(n, s.peer)>>

\* Lines 250-256: one turn of the chunk loop.
SChunk ==
    /\ snd.pc = "chunks"
    /\ IF snd.transferred < snd.file_size
       THEN \E k \in ReadCounts(disk.src.data, snd.pos) :
              IF k = 0
              THEN /\ snd' = SLoopExit(snd, net)[1]
                   /\ net' = SLoopExit(snd, net)[2]
              ELSE LET chunk == SubSeq(disk.src.data, snd.pos + 1, snd.pos + k)
                       read == [snd EXCEPT !.pos = @ + k]
                   IN \/ /\ snd' = [read EXCEPT !.sent = @ \o chunk,
                                                !.transferred = @ + k,
                                                !.events = Append(@, snd.transferred + k),
                                                !.short = @ \/ (k < Min(BUFFER_SIZE, Len(disk.src.data) - snd.pos))]
                         /\ net' = IF snd.peer = "recv"
                                      THEN [net EXCEPT !.chan = Append(@, chunk)]
                                      ELSE net
                      \/ /\ net.faults   \* channel.send fails
                         /\ snd' = SReturn(read, Res("TransferError"))
                         /\ net' = DropAll(net, snd.peer)
       ELSE /\ snd' = SLoopExit(snd, net)[1]
            /\ net' = SLoopExit(snd, net)[2]
    /\ UNCHANGED <<pw, rcv, disk, other, sig>>

(***************************************************************************)
(* Other hosts and processes, as far as send_file meets them.              *)
(***************************************************************************)
\* What a foreign peer writes on the stream it opened to the sender.
ForeignTokens == {Tok("pass", P1), Tok("pass", P2), AnswerTok, JunkTok}

\* A host that is not the receiver connects to the transfer port.
ForeignConnect ==
    /\ net.others
    /\ net.listening
    /\ "foreign" \notin net.backlog
    /\ snd.peer # "foreign"
    /\ net.fconns < MaxForeignConns
    /\ net' = [net EXCEPT !.backlog = @ \cup {"foreign"}, !.fconns = @ + 1]
    /\ UNCHANGED <<pw, snd, rcv, disk, other, sig>>

\* The foreign peer writes on its stream.
ForeignWrite ==
    /\ snd.peer = "foreign"
    /\ snd.pc \in {"accepted", "answer"}
    /\ ~net.toS.eof
    /\ Len(net.toS.body) < 2
    /\ \E t \in ForeignTokens : net' = [net EXCEPT !.toS.body = Append(@, t)]
    /\ UNCHANGED <<pw, snd, rcv, disk, other, sig>>

\* The foreign peer shuts its side of the stream down.
ForeignShutdown ==
    /\ snd.peer = "foreign"
    /\ snd.pc \in {"accepted", "answer"}
    /\ ~net.toS.eof
    /\ net' = [net EXCEPT !.toS.eof = TRUE]
    /\ UNCHANGED <<pw, snd, rcv, disk, other, sig>>

\* Another process truncates or extends the source file after it was opened.
SrcEdit ==
    /\ snd.pc \in {"listen", "accepted", "answer", "chunks"}
    /\ disk.edits < MaxSrcEdits
    /\ \E k \in 0..MaxFileLen :
          /\ k # Len(disk.src.data)
          /\ disk' = [disk EXCEPT !.src.data = Content(k), !.edits = @ + 1]
    /\ UNCHANGED <<pw, snd, rcv, net, other, sig>>

(***************************************************************************)
(* receive_file.                                                           *)
(*   pc: start -> search (the recv_from loop) -> found (the existence      *)
(*       test) -> connect -> size (read_exact) -> offer (read_to_end, the  *)
(*       answer) -> create (File::create) -> chunks (the receive loop) ->  *)
(*       finish (line 352) -> done                                         *)
(*   bound, connected, created, written, delivered, existed and last       *)
(*   record what the run did: the socket it bound, the connection it tried,*)
(*   the file it created, the bytes it wrote, the bytes on_message put in  *)
(*   received_data, what the existence test saw, the last datagram read.   *)
(***************************************************************************)
RReturn(r, result) == [r EXCEPT !.pc = "done", !.result = result]

\* receive_file returns: its stream and channel are dropped.
RDrop(n, s) ==
    [n EXCEPT !.rgone = TRUE,
              !.toS.eof = IF s.peer = "recv" THEN TRUE ELSE @]

\* The discovery socket of an invocation lives from its bind to its return.
HoldsPort(r) == r.bound /\ r.pc # "done"

\* The mutant of PortFree that lets two sockets share the port.
PortFree_Shared(o) == TRUE

\* Line 281: UdpSocket::bind to the fixed DISCOVERY_PORT succeeds only while
\* no other socket of the host is bound to it (the socket is made without
\* SO_REUSEADDR or SO_REUSEPORT).
PortFree(o) == ~HoldsPort(o)

\* Lines 279-282: validate_passcode, then the discovery socket.  A bind that
\* fails, with AddrInUse or otherwise, is Err(TransferError).
RStart ==
    /\ rcv.pc = "start"
    /\ IF validate_passcode(rcv.passcode) # "Ok"
       THEN rcv' = RReturn(rcv, Res("InvalidPasscode"))
       ELSE \/ /\ PortFree(other.rcv)
               /\ rcv' = [rcv EXCEPT !.pc = "search", !.bound = TRUE]
            \/ /\ net.faults \/ ~PortFree(other.rcv)   \* UdpSocket::bind fails
               /\ rcv' = RReturn(rcv, Res("TransferError"))
    /\ UNCHANGED <<pw, snd, net, disk, other, sig>>

\* str::strip_prefix: the rest of the message, or "none".
strip_prefix(message, prefix) ==
    IF Len(message) >= Len(prefix) /\ SubSeq(message, 1, Len(prefix)) = prefix
    THEN [some |-> TRUE, rest |-> SubSeq(message, Len(prefix) + 1, Len(message))]
    ELSE [some |-> FALSE, rest |-> <<>>]

\* str::split(':'): the parts between the separators; one part, the empty
\* string, for the empty string.
RECURSIVE SplitFrom(_, _, _)
SplitFrom(str, sep, part) ==
    IF str = <<>> THEN <<part>>
    ELSE IF Head(str) = sep
         THEN <<part>> \o SplitFrom(Tail(str), sep, <<>>)
         ELSE SplitFrom(Tail(str), sep, Append(part, Head(str)))
split(str, sep) == SplitFrom(str, sep, <<>>)

\* String::from_utf8_lossy: a byte that is no UTF-8 ("xFF" stands for one)
\* becomes the replacement character U+FFFD.
from_utf8_lossy(bytes) ==
    [i \in 1..Len(bytes) |-> IF bytes[i] = "xFF" THEN "uFFFD" ELSE bytes[i]]

\* The mutant of IsMatch that only tests that the first field starts like
\* the passcode.
IsMatch_StartsWith(message, passcode) ==
    LET content == strip_prefix(message, SLKRD)
        parts == split(content.rest, ":")
    IN  /\ content.some
        /\ Len(parts) = 2
        /\ Len(parts[1]) >= Len(passcode)
        /\ SubSeq(parts[1], 1, Len(passcode)) = passcode

\* Lines 292-294: the announcement test of the search loop.
IsMatch(message, passcode) ==
    LET content == strip_prefix(message, SLKRD)
        parts == split(content.rest, ":")
    IN  /\ content.some
        /\ Len(parts) = 2
        /\ parts[1] = passcode

\* Line 295: parts[1].to_string(), the destination name.
AnnouncedName(message) == split(strip_prefix(message, SLKRD).rest, ":")[2]

\* Lines 289-299: recv_from returns a datagram; a match ends the search.
RRecv ==
    /\ rcv.pc = "search"
    /\ \E d \in net.dgrams \cup (IF net.others THEN ForeignDgrams ELSE {}) :
          LET message == from_utf8_lossy(d.text) IN
          IF IsMatch(message, rcv.passcode)
          THEN rcv' = [rcv EXCEPT !.pc = "found", !.sender = d.from,
                                  !.filename = AnnouncedName(message), !.last = d]
          ELSE rcv' = [rcv EXCEPT !.last = d]
    /\ UNCHANGED <<pw, snd, net, disk, other, sig>>

\* Line 304: recv_from fails, Err(ConnectionFailed).
RRecvError ==
    /\ rcv.pc = "search"
    /\ net.faults
    /\ rcv' = RReturn([rcv EXCEPT !.last = NoDgram], Res("ConnectionFailed"))
    /\ UNCHANGED <<pw, snd, net, disk, other, sig>>

\* Path::new(&filename).exists()
PathExists(dir, name) == name \in DirNames /\ dir[name].exists

\* The mutant of DestinationTaken that never finds the destination.
DestinationTaken_Never(dir, name) == FALSE

\* Line 311: the test that makes receive_file return Err(FileExists).
DestinationTaken(dir, name) == PathExists(dir, name)

\* Lines 311-313: the destination is tested before anything is connected.
RCheck ==
    /\ rcv.pc = "found"
    /\ LET seen == [rcv EXCEPT !.existed = PathExists(disk.dir, rcv.filename),
                               !.before = IF PathExists(disk.dir, rcv.filename)
                                          THEN disk.dir[rcv.filename].data
                                          ELSE <<>>]
       IN IF DestinationTaken(disk.dir, rcv.filename)
          THEN rcv' = RReturn(seen, Res("FileExists"))
          ELSE rcv' = [seen EXCEPT !.pc = "connect"]
    /\ UNCHANGED <<pw, snd, net, disk, other, sig>>

\* Lines 315-316: TcpStream::connect to the announcing host, then the channel.
RConnect ==
    /\ rcv.pc = "connect"
    /\ LET tried == [rcv EXCEPT !.connected = TRUE] IN
       \/ /\ rcv.sender = "send" /\ net.listening
          /\ rcv' = [tried EXCEPT !.pc = "size"]
          /\ net' = [net EXCEPT !.backlog = @ \cup {"recv"}, !.toR = FreshToR]
       \/ /\ rcv.sender = "send" /\ ~net.listening   \* connection refused
          /\ rcv' = RReturn(tried, Res("TransferError"))
          /\ net' = net
       \/ /\ rcv.sender = "foreign"
          /\ rcv' = [tried EXCEPT !.pc = "size"]
          /\ net' = [net EXCEPT !.toR = FreshToR]
       \/ /\ rcv.sender = "foreign"                  \* refused, or timed out
          /\ \E e \in {"TransferError", "Timeout"} : rcv' = RReturn(tried, Res(e))
          /\ net' = net
       \/ /\ net.faults                              \* WebRTCChannel::new fails
          /\ rcv.sender = "send" => net.listening
          /\ rcv' = RReturn(tried, Res("ConnectionFailed"))
          /\ net' = IF rcv.sender = "send" /\ net.listening
                       THEN [net EXCEPT !.backlog = @ \cup {"recv"}, !.rgone = TRUE]
                       ELSE net
    /\ UNCHANGED <<pw, snd, disk, other, sig>>

\* Lines 319-321: read_exact of the 8 size bytes, from_le_bytes.
RReadSize ==
    /\ rcv.pc = "size"
    /\ \/ /\ Len(net.toR.hdr) = 8
          /\ rcv' = [rcv EXCEPT !.pc = "offer", !.file_size = from_le_bytes(net.toR.hdr)]
          /\ net' = net
       \/ /\ Len(net.toR.hdr) < 8
          /\ net.toR.eof \/ net.toR.reset       \* UnexpectedEof, ConnectionReset
          /\ rcv' = RReturn(rcv, Res("TransferError"))
          /\ net' = RDrop(net, snd)
    /\ UNCHANGED <<pw, snd, disk, other, sig>>

\* Lines 324-338: read_to_end returns at end of stream; the offer is parsed
\* and set, the answer is made and written.
RReadOffer ==
    /\ rcv.pc = "offer"
    /\ net.toR.eof
    /\ \/ /\ ParsesAsDescription(net.toR.body, OfferTok)
          /\ rcv' = [rcv EXCEPT !.pc = "create"]
          /\ net' = IF snd.peer = "recv" /\ rcv.sender = "send"
                       THEN [net EXCEPT !.toS.body = Append(@, AnswerTok)]
                       ELSE net
       \/ /\ \/ ~ParsesAsDescription(net.toR.body, OfferTok)
             \/ net.faults      \* set_remote_description, create_answer ... fail
          /\ rcv' = RReturn(rcv, Res("ConnectionFailed"))
          /\ net' = RDrop(net, snd)
    /\ UNCHANGED <<pw, snd, disk, other, sig>>

\* Line 340: File::create makes the file or truncates it; the empty name is
\* no file (NotFound).
RCreate ==
    /\ rcv.pc = "create"
    /\ \/ /\ rcv.filename \in DirNames
          /\ rcv' = [rcv EXCEPT !.pc = "chunks", !.created = TRUE, !.received = 0]
          /\ disk' = [disk EXCEPT !.dir[rcv.filename] = [exists |-> TRUE, data |-> <<>>]]
          /\ net' = net
       \/ /\ rcv.filename \notin DirNames
          /\ rcv' = RReturn(rcv, Res("FileNotFound"))
          /\ disk' = disk
          /\ net' = RDrop(net, snd)
       \/ /\ net.faults            \* the directory is not writable
          /\ rcv' = RReturn(rcv, Res("TransferError"))
          /\ disk' = disk
          /\ net' = RDrop(net, snd)
    /\ UNCHANGED <<pw, snd, other, sig>>

\* Lines 343-350: one turn of the receive loop.  channel.receive takes all of
\* received_data and clears it; an empty take leaves the loop.
RChunk ==
    /\ rcv.pc = "chunks"
    /\ IF rcv.received < rcv.file_size
       THEN LET data == rcv.received_data
                taken == [rcv EXCEPT !.received_data = <<>>]
            IN IF data = <<>>
               THEN /\ rcv' = [taken EXCEPT !.pc = "finish"]
                    /\ disk' = disk
               ELSE \/ /\ rcv' = [taken EXCEPT !.received = @ + Len(data),
                                                !.written = @ + Len(data),
                                                !.events = Append(@, rcv.received + Len(data))]
                       /\ disk' = [disk EXCEPT !.dir[rcv.filename].data = @ \o data]
                    \/ /\ net.faults    \* write_all fails
                       /\ rcv' = RReturn(taken, Res("TransferError"))
                       /\ disk' = disk
       ELSE /\ rcv' = [rcv EXCEPT !.pc = "finish"]
            /\ disk' = disk
    /\ net' = IF rcv'.pc = "done" THEN RDrop(net, snd) ELSE net
    /\ UNCHANGED <<pw, snd, other, sig>>

\* The mutant of ReceiveComplete that accepts a surplus.
ReceiveComplete_AtLeast(received, file_size) == received >= file_size

\* Line 352: the test that makes receive_file return Ok.
ReceiveComplete(received, file_size) == received = file_size

\* Lines 352-357: the count is compared with the declared size.
RFinish ==
    /\ rcv.pc = "finish"
    /\ rcv' = RReturn(rcv, IF ReceiveComplete(rcv.received, rcv.file_size)
                           THEN Ok
                           ELSE IncompleteTransfer(rcv.received, rcv.file_size))
    /\ net' = RDrop(net, snd)
    /\ UNCHANGED <<pw, snd, disk, other, sig>>

\* Lines 154-158: the on_message callback appends a delivered message to
\* received_data.  Messages arrive in the order sent, once the channel is
\* negotiated and while it exists.
OnMessage ==
    /\ rcv.pc \in {"create", "chunks", "finish"}
    /\ net.chan # <<>>
    /\ rcv' = [rcv EXCEPT !.received_data = @ \o Head(net.chan),
                          !.delivered = @ + Len(Head(net.chan))]
    /\ net' = [net EXCEPT !.chan = Tail(@)]
    /\ UNCHANGED <<pw, snd, disk, other, sig>>

(***************************************************************************)
(* A foreign sender: the host behind a matching announcement that is not   *)
(* this send_file.                                                         *)
(***************************************************************************)
\* It writes 8 size bytes, or fewer.
ForeignSize ==
    /\ rcv.sender = "foreign" /\ rcv.pc = "size"
    /\ net.toR.hdr = <<>> /\ ~net.toR.eof
    /\ \E h \in {to_le_bytes(k) : k \in 0..MaxFileLen} \cup {<<1, 0, 0>>} :
          net' = [net EXCEPT !.toR.hdr = h]
    /\ UNCHANGED <<pw, snd, rcv, disk, other, sig>>

\* It writes an offer, or bytes that are none.
ForeignOffer ==
    /\ rcv.sender = "foreign" /\ rcv.pc \in {"size", "offer"}
    /\ Len(net.toR.hdr) = 8 /\ net.toR.body = <<>> /\ ~net.toR.eof
    /\ \E t \in {OfferTok, JunkTok} : net' = [net EXCEPT !.toR.body = <<t>>]
    /\ UNCHANGED <<pw, snd, rcv, disk, other, sig>>

\* It shuts its side of the stream down.
ForeignEof ==
    /\ rcv.sender = "foreign" /\ rcv.pc \in {"size", "offer"}
    /\ ~net.toR.eof
    /\ net' = [net EXCEPT !.toR.eof = TRUE]
    /\ UNCHANGED <<pw, snd, rcv, disk, other, sig>>

\* It sends a message of payload bytes on the data channel.
ForeignSend ==
    /\ rcv.sender = "foreign" /\ rcv.pc \in {"create", "chunks", "finish"}
    /\ net.fsent < MaxFileLen
    /\ \E k \in 1..Min(BUFFER_SIZE, MaxFileLen - net.fsent) :
          net' = [net EXCEPT !.chan = Append(@, [i \in 1..k |-> net.fsent + i]),
                             !.fsent = @ + k]
    /\ UNCHANGED <<pw, snd, rcv, disk, other, sig>>

(***************************************************************************)
(* The specification of the two programs and their surroundings.           *)
(***************************************************************************)
\* The strings the receiver is started on.
TypedPasscodes == {P1, P2, BadChar, TooShort}

\* A run has the sender and other hosts, the receiver and other hosts, or
\* the sender and the receiver alone with each other.
Runs == { [send |-> TRUE, recv |-> FALSE, others |-> TRUE],
          [send |-> FALSE, recv |-> TRUE, others |-> TRUE],
          [send |-> TRUE, recv |-> TRUE, others |-> FALSE] }

NoSrc == [exists |-> FALSE, data |-> <<>>]
NoDest == [exists |-> FALSE, data |-> <<>>]
OldDest == [exists |-> TRUE, data |-> <<9, 9>>]

SndAt(pc, f) ==
    [pc |-> pc, filename |-> f, passcode |-> <<>>, file_size |-> 0,
     retries |-> 0, transferred |-> 0, pos |-> 0, peer |-> "none",
     result |-> NoResult, wrote |-> <<>>, sent |-> <<>>, events |-> <<>>,
     presented |-> <<>>, sessions |-> 0, bcasts |-> 0, short |-> FALSE]

RcvAt(pc, p) ==
    [pc |-> pc, passcode |-> p, sender |-> "none", filename |-> <<>>,
     file_size |-> 0, received |-> 0, received_data |-> <<>>,
     result |-> NoResult, events |-> <<>>, bound |-> FALSE,
     connected |-> FALSE, created |-> FALSE, written |-> 0,
     delivered |-> 0, existed |-> FALSE, before |-> <<>>, last |-> NoDgram]

NetAt(faults, others) ==
    [dgrams |-> {}, listening |-> FALSE, backlog |-> {}, fconns |-> 0,
     toS |-> FreshToS, toR |-> FreshToR, rgone |-> FALSE, chan |-> <<>>,
     fsent |-> 0, faults |-> faults, others |-> others]

DiskAt(src, dest) == [src |-> src, edits |-> 0, dir |-> [n \in DirNames |-> dest]]

(***************************************************************************)
(* The SignalingServer of src/src/signaling.rs.                            *)
(*   sessions  the HashMap from passcode to SessionInfo; an Option is a    *)
(*             record with the flag some, an absent address is 0           *)
(*   offered   per passcode, the address the last Offer handled came from  *)
(*   last      the last call of handle_message: its message, the address   *)
(*             it came from, the datagrams it sent, what it returned       *)
(***************************************************************************)
SigAddrs == 1..MaxAddrs
NoAddr == 0
SigPasscodes == {P1, P2}
SessionIds == {"u1", "u2"}
MessageTypes == {"Offer", "Answer", "IceCandidate"}

\* SignalingMessage (the payload is carried along and never looked at).
SigMessages ==
    [session_id : SessionIds, passcode : SigPasscodes, message_type : MessageTypes]

\* Option<SessionInfo>
NoSession == [some |-> FALSE, id |-> "none", sender_addr |-> NoAddr,
              receiver_addr |-> NoAddr]
SessionInfo(id, sender_addr, receiver_addr) ==
    [some |-> TRUE, id |-> id, sender_addr |-> sender_addr,
     receiver_addr |-> receiver_addr]

NoMessage == [session_id |-> "none", passcode |-> <<>>, message_type |-> "none"]

SigIdle ==
    [sessions |-> [p \in SigPasscodes |-> NoSession],
     offered |-> [p \in SigPasscodes |-> NoAddr],
     last |-> [message |-> NoMessage, addr |-> NoAddr, sent |-> {},
               result |-> NoResult]]

\* socket.send_to(&serde_json::to_vec(&message).unwrap(), target)
SendTo(message, target) == [to |-> target, message |-> message]

\* The mutant of IceTarget that sends every candidate to the sender.
IceTarget_AlwaysSender(session, addr) == session.sender_addr

\* Lines 94-98: the peer an IceCandidate is forwarded to, or none.
IceTarget(session, addr) ==
    IF addr = session.sender_addr THEN session.receiver_addr
    ELSE session.sender_addr

\* What one call leaves behind: the map, the datagrams sent, the result.
Handled(s, message, addr, sessions, sent, result) ==
    [s EXCEPT !.sessions = sessions,
              !.offered = IF message.message_type = "Offer"
                          THEN [@ EXCEPT ![message.passcode] = addr] ELSE @,
              !.last = [message |-> message, addr |-> addr, sent |-> sent,
                        result |-> result]]

\* Lines 64-113: handle_message, called by run for each datagram received.
handle_message ==
    /\ \E message \in SigMessages, addr \in SigAddrs :
          LET p == message.passcode
              session == sig.sessions[p]
          IN
          \/ /\ message.message_type = "Offer"
             /\ sig' = Handled(sig, message, addr,
                               [sig.sessions EXCEPT ![p] =
                                    SessionInfo(message.session_id, addr, NoAddr)],
                               {}, Ok)
          \/ /\ message.message_type = "Answer"
             /\ IF session.some
                THEN LET answered == [sig.sessions EXCEPT ![p].receiver_addr = addr] IN
                     \/ sig' = Handled(sig, message, addr, answered,
                                       {SendTo(message, session.sender_addr)}, Ok)
                     \/ /\ net.faults      \* send_to fails
                        /\ sig' = Handled(sig, message, addr, answered, {},
                                          Res("Network"))
                ELSE sig' = Handled(sig, message, addr, sig.sessions, {}, Ok)
          \/ /\ message.message_type = "IceCandidate"
             /\ IF session.some /\ IceTarget(session, addr) # NoAddr
                THEN \/ sig' = Handled(sig, message, addr, sig.sessions,
                                       {SendTo(message, IceTarget(session, addr))}, Ok)
                     \/ /\ net.faults      \* send_to fails
                        /\ sig' = Handled(sig, message, addr, sig.sessions, {},
                                          Res("Network"))
                ELSE sig' = Handled(sig, message, addr, sig.sessions, {}, Ok)
    /\ UNCHANGED <<pw, snd, rcv, net, disk, other>>

\* The second invocation: none, or one at a position, with its connection.
OtherAt(pc, p) ==
    [rcv |-> RcvAt(pc, p), toR |-> FreshToR, chan |-> <<>>, fsent |-> 0,
     rgone |-> FALSE]

Init ==
    /\ pw = PwIdle
    /\ other = OtherAt("absent", P1)
    /\ sig = SigIdle
    /\ \E run \in Runs :
          /\ snd \in IF run.send THEN {SndAt("start", f) : f \in SenderNames}
                                 ELSE {SndAt("absent", <<"f">>)}
          /\ rcv \in IF run.recv THEN {RcvAt("start", p) : p \in TypedPasscodes}
                                 ELSE {RcvAt("absent", P1)}
          /\ net \in {NetAt(b, run.others) : b \in BOOLEAN}
          /\ disk \in {DiskAt(s, d) :
                          s \in IF run.send
                                THEN {NoSrc} \cup {[exists |-> TRUE, data |-> Content(k)]
                                                   : k \in 0..MaxFileLen}
                                ELSE {NoSrc},
                          d \in IF run.recv THEN {NoDest, OldDest} ELSE {NoDest}}

Next ==
    \/ SStart \/ SGiveUp \/ SAccept \/ SWouldBlock \/ SAcceptError
    \/ SHandshake \/ SAnswer \/ SChunk
    \/ ForeignConnect \/ ForeignWrite \/ ForeignShutdown \/ SrcEdit
    \/ RStart \/ RRecv \/ RRecvError \/ RCheck \/ RConnect \/ RReadSize
    \/ RReadOffer \/ RCreate \/ RChunk \/ RFinish \/ OnMessage
    \/ ForeignSize \/ ForeignOffer \/ ForeignEof \/ ForeignSend

Spec == Init /\ [][Next]_vars

\* receive_file among other hosts, with no send_file on the network.  The
\* process is scheduled as long as it runs: a step it can take (a call of
\* its that can return) is taken in the end.  The other hosts owe nothing.
ReceiverInit == Init /\ snd.pc = "absent"

ReceiverStep ==
    \/ RStart \/ RRecv \/ RRecvError \/ RCheck \/ RConnect \/ RReadSize
    \/ RReadOffer \/ RCreate \/ RChunk \/ RFinish

ReceiverNext ==
    \/ ReceiverStep \/ OnMessage
    \/ ForeignSize \/ ForeignOffer \/ ForeignEof \/ ForeignSend

FairReceiverSpec ==
    ReceiverInit /\ [][ReceiverNext]_vars /\ WF_vars(ReceiverStep)

\* Two receive_file invocations on one host, in one working directory, among
\* other hosts.  The host runs one step of one invocation at a time: rcv and
\* the connection in net are those of the invocation at its step, other
\* holds the one that waits.  The discovery port and the directory are the
\* host's, one for both.
Switch ==
    /\ other.rcv.pc \notin {"absent", "done"}
    /\ rcv' = other.rcv
    /\ other' = [rcv |-> rcv, toR |-> net.toR, chan |-> net.chan,
                 fsent |-> net.fsent, rgone |-> net.rgone]
    /\ net' = [net EXCEPT !.toR = other.toR, !.chan = other.chan,
                          !.fsent = other.fsent, !.rgone = other.rgone]
    /\ UNCHANGED <<pw, snd, disk, sig>>

TwoReceiversInit ==
    /\ pw = PwIdle
    /\ snd = SndAt("absent", <<"f">>)
    /\ rcv \in {RcvAt("start", p) : p \in {P1, P2}}
    /\ other = OtherAt("start", P1)
    /\ sig = SigIdle
    /\ net \in {NetAt(b, TRUE) : b \in BOOLEAN}
    /\ disk \in {DiskAt(NoSrc, d) : d \in {NoDest, OldDest}}

TwoReceiversNext == ReceiverNext \/ Switch

TwoReceiversSpec == TwoReceiversInit /\ [][TwoReceiversNext]_vars

\* The passcode functions alone.
PasscodeInit ==
    /\ pw \in {[pc |-> "build", origin |-> o, str |-> <<>>, result |-> "none"]
               : o \in {"generate", "typed"}}
    /\ snd = SndAt("absent", <<"f">>)
    /\ rcv = RcvAt("absent", P1)
    /\ net = NetAt(FALSE, FALSE)
    /\ disk = DiskAt(NoSrc, NoDest)
    /\ other = OtherAt("absent", P1)
    /\ sig = SigIdle

PasscodeNext == GenerateChar \/ TypeChar \/ Validate

PasscodeSpec == PasscodeInit /\ [][PasscodeNext]_vars

\* The signaling server alone: SignalingServer::new, then run's loop.
SignalingInit ==
    /\ pw = PwIdle
    /\ snd = SndAt("absent", <<"f">>)
    /\ rcv = RcvAt("absent", P1)
    /\ net \in {NetAt(b, FALSE) : b \in BOOLEAN}
    /\ disk = DiskAt(NoSrc, NoDest)
    /\ other = OtherAt("absent", P1)
    /\ sig = SigIdle

SignalingNext == handle_message

SignalingSpec == SignalingInit /\ [][SignalingNext]_vars

(***************************************************************************)
(* The claims.                                                             *)
(***************************************************************************)
Last(seq) == seq[Len(seq)]
NonDecreasing(seq) == \A i \in 1..(Len(seq) - 1) : seq[i] <= seq[i + 1]

\* The file size a stream's header announces.
Announced(wrote) == from_le_bytes(wrote[1].v)

\* C1: the sender writes the file-size header on a connection only after the
\* peer has presented passcode bytes equal to the sender's passcode.  The
\* code writes it to whoever connects.
C1_HeaderOnlyAfterPasscode ==
    snd.wrote # <<>> =>
        /\ snd.presented # <<>>
        /\ Head(snd.presented) = Tok("pass", snd.passcode)

\* The peer of the accepted stream has not presented the sender's passcode.
WrongPeer ==
    /\ snd.peer = "foreign"
    /\ \/ net.toS.body = <<>>
       \/ Head(net.toS.body) # Tok("pass", snd.passcode)

\* C2: a peer with a wrong passcode, or one that fails its handshake, never
\* makes send_file return; with no call failing on the sender's side,
\* send_file has not returned while such a peer holds the accepted stream.
C2_WrongPeerNeverEndsSender ==
    (~net.faults /\ WrongPeer) => snd.pc # "done"

\* A step of send_file, of receive_file, or of the session between them.
ProgramStep ==
    \/ SStart \/ SGiveUp \/ SAccept \/ SWouldBlock \/ SHandshake \/ SAnswer
    \/ SChunk \/ RStart \/ RRecv \/ RCheck \/ RConnect \/ RReadSize
    \/ RReadOffer \/ RCreate \/ RChunk \/ RFinish \/ OnMessage

\* send_file and receive_file are connected to each other, nothing fails and
\* nobody touches the source file.
Loopback ==
    /\ snd.peer = "recv" /\ rcv.sender = "send"
    /\ ~net.faults /\ ~net.others /\ disk.edits = 0

\* C3: send_file and receive_file run against each other over a reliable
\* ordered session end with both returning Ok and the destination equal to
\* the source: whenever the pair can take no further step, both have
\* returned Ok and the destination holds the source's bytes.
C3_RoundTrip ==
    (Loopback /\ ~ENABLED ProgramStep) =>
        /\ snd.result = Ok
        /\ rcv.result = Ok
        /\ disk.dir[rcv.filename].data = disk.src.data

\* C4: when the session has delivered k < file_size payload bytes to the
\* receiver and receive_file has ended its loop and returned, it returned
\* Err(IncompleteTransfer(k, file_size)) and k is what it wrote.
C4_TruncationReported ==
    ( /\ rcv.pc = "done" /\ rcv.created /\ ~net.faults
      /\ rcv.delivered < rcv.file_size ) =>
        /\ rcv.result = IncompleteTransfer(rcv.delivered, rcv.file_size)
        /\ rcv.written = rcv.delivered

\* C5: when send_file returns Ok, the bytes it handed to the session number
\* the file size its header announced; when receive_file returns Ok, the
\* bytes it wrote to the destination number the file size it read.
C5_NoSilentPartialSuccess ==
    /\ snd.result = Ok => Len(snd.sent) = Announced(snd.wrote)
    /\ rcv.result = Ok =>
          /\ rcv.written = from_le_bytes(net.toR.hdr)
          /\ Len(disk.dir[rcv.filename].data) = from_le_bytes(net.toR.hdr)

\* receive_file returned Ok after it took data from the channel twice.
C5_Witness == rcv.result = Ok /\ Len(rcv.events) >= 2

\* send_file returned Ok after a short read (reached, like C5_Witness).
C5_SenderCase == snd.result = Ok /\ snd.short /\ Len(snd.sent) = MaxFileLen

\* C6: when the destination exists at the existence test, receive_file
\* returns Err(FileExists), the file keeps its contents, and the run neither
\* creates or writes the destination nor connects to the sender.
C6_DestinationCollision ==
    rcv.existed =>
        /\ rcv.pc = "done" /\ rcv.result = Res("FileExists")
        /\ disk.dir[rcv.filename] = [exists |-> TRUE, data |-> rcv.before]
        /\ ~rcv.created /\ rcv.written = 0
        /\ ~rcv.connected /\ "recv" \notin net.backlog

\* The existence test found the destination.
C6_Witness == rcv.existed /\ rcv.result = Res("FileExists") /\ rcv.before # <<>>

\* The alphabet 0-9, and a string of PASSCODE_LENGTH characters over it.
Alphabet == {CHARSET[i] : i \in 1..Len(CHARSET)}
WellFormed(str) ==
    Len(str) = PASSCODE_LENGTH /\ \A i \in 1..Len(str) : str[i] \in Alphabet

\* C7: validate_passcode returns Ok exactly for the strings of
\* PASSCODE_LENGTH characters over 0-9, Err(InvalidPasscode) for all others,
\* and accepts every string generate_passcode returns.
C7_PasscodeValidation ==
    pw.pc = "validated" =>
        /\ pw.result = (IF WellFormed(pw.str) THEN "Ok" ELSE "InvalidPasscode")
        /\ pw.origin = "generate" => pw.result = "Ok"

\* A generated passcode was validated and accepted.
C7_Witness == pw.pc = "validated" /\ pw.origin = "generate" /\ pw.result = "Ok"

\* A typed string of PASSCODE_LENGTH bytes was rejected (reached as well).
C7_TypedCase ==
    pw.pc = "validated" /\ pw.origin = "typed" /\ str_len(pw.str) = PASSCODE_LENGTH
                        /\ pw.result = "InvalidPasscode"

\* C8: receive_file called with a string that is no well-formed passcode
\* returns Err(InvalidPasscode) with no socket bound, no datagram read, no
\* connection attempted and no file created.
C8_FailFast ==
    (~WellFormed(rcv.passcode) /\ rcv.pc \notin {"absent", "start"}) =>
        /\ rcv.pc = "done" /\ rcv.result = Res("InvalidPasscode")
        /\ ~rcv.bound /\ rcv.last = NoDgram
        /\ ~rcv.connected /\ ~rcv.created
        /\ \A n \in DirNames : disk.dir[n] \in {NoDest, OldDest}
        /\ rcv.written = 0

\* receive_file returned on a string with a character outside the alphabet.
C8_Witness == rcv.passcode = BadChar /\ rcv.result = Res("InvalidPasscode")

\* A datagram read off the wire, independently of the code's parsing: its
\* prefix, the separators after the prefix, and its passcode field (the
\* text between the prefix and the first separator).
HasPrefix(text) == Len(text) >= Len(SLKRD) /\ \A i \in 1..Len(SLKRD) : text[i] = SLKRD[i]
Separators(text) == {i \in (Len(SLKRD) + 1)..Len(text) : text[i] = ":"}
PasscodeField(text) ==
    LET first == CHOOSE i \in Separators(text) : \A j \in Separators(text) : i <= j
    IN  [i \in 1..(first - Len(SLKRD) - 1) |-> text[Len(SLKRD) + i]]
\* It lacks the prefix, is malformed, or carries another passcode.
ToBeIgnored(text, passcode) ==
    \/ ~HasPrefix(text)
    \/ Cardinality(Separators(text)) # 1
    \/ PasscodeField(text) # passcode

\* C9: the search loop is left with a chosen sender only on an announcement
\* whose passcode field equals the receiver's passcode; a datagram without
\* the prefix, malformed or with another passcode leaves the receiver
\* searching, no sender chosen, no error returned.
C9_AnnouncementFiltering ==
    /\ rcv.sender # "none" =>
          /\ HasPrefix(rcv.last.text)
          /\ Separators(rcv.last.text) # {}
          /\ PasscodeField(rcv.last.text) = rcv.passcode
    /\ (rcv.last # NoDgram /\ ToBeIgnored(rcv.last.text, rcv.passcode)) =>
          /\ rcv.pc = "search" /\ rcv.sender = "none" /\ rcv.result = NoResult

\* The receiver, having read a datagram, is still searching.
C9_Witness ==
    /\ rcv.pc = "search" /\ rcv.passcode = P1
    /\ rcv.last = Dgram("foreign", Announcement(P1 \o <<"7">>, <<"f">>))

\* The receiver left the loop on a matching announcement (reached as well).
C9_ChosenCase == rcv.pc = "found" /\ rcv.sender = "foreign" /\ rcv.passcode = P2

\* C10 as stated: the progress events of a transfer never decrease and every
\* transfer that returns Ok, of any size, 0 included, has a last event whose
\* bytes_moved is the file size.
C10_ProgressWithFinalEvent ==
    /\ NonDecreasing(snd.events) /\ NonDecreasing(rcv.events)
    /\ snd.result = Ok => (snd.events # <<>> /\ Last(snd.events) = snd.file_size)
    /\ rcv.result = Ok => (rcv.events # <<>> /\ Last(rcv.events) = rcv.file_size)

FinalEventIsSize(result, events, file_size) ==
    result = Ok =>
        IF file_size = 0 THEN events = <<>>
        ELSE events # <<>> /\ Last(events) = file_size

\* C10 amended: the progress events of a transfer never decrease; a transfer
\* of a non-empty file that returns Ok has a last event whose bytes_moved is
\* the file size; a transfer of an empty file that returns Ok has no event.
C10_Progress ==
    /\ NonDecreasing(snd.events) /\ NonDecreasing(rcv.events)
    /\ FinalEventIsSize(snd.result, snd.events, snd.file_size)
    /\ FinalEventIsSize(rcv.result, rcv.events, rcv.file_size)

\* send_file returned Ok after more than one progress event.
C10_Witness == snd.result = Ok /\ Len(snd.events) >= 2

\* C11: when no peer ever connects to the listener and no call fails,
\* send_file broadcasts at most as often as its retry budget allows and
\* then returns Err(Timeout).  The code does not count a turn on which
\* accept finds no connection pending, so the broadcasts go on.
C11_BoundedSenderWait ==
    (snd.sessions = 0 /\ ~net.faults) =>
        /\ snd.bcasts <= MAX_RETRIES
        /\ (snd.pc = "done" /\ disk.src.exists) => snd.result = Res("Timeout")

\* The lengths of the writes of a session, from the counts it reported.
WriteLen(events, i) == events[i] - (IF i = 1 THEN 0 ELSE events[i - 1])
Ceil(a, b) == (a + b - 1) \div b

\* C12: with source reads that fill the buffer and an unchanged source, a
\* session that returns Ok has moved the file_size bytes in file order as
\* ceil(file_size / chunk_size) writes, each of chunk_size bytes but the
\* last, which has the rest.  The code reads and sends BUFFER_SIZE bytes at a
\* time, whatever the configured chunk size.
C12_Chunking ==
    (snd.result = Ok /\ ~snd.short /\ disk.edits = 0) =>
        /\ snd.sent = disk.src.data
        /\ Len(snd.events) = Ceil(snd.file_size, chunk_size)
        /\ \A i \in 1..Len(snd.events) :
              /\ WriteLen(snd.events, i) <= chunk_size
              /\ i < Len(snd.events) => WriteLen(snd.events, i) = chunk_size
        /\ snd.events # <<>> => Last(snd.events) = snd.file_size

\* An invocation is between its existence test and the end of its chunk loop.
InCritical(r) == r.pc \in {"connect", "size", "offer", "create", "chunks"}

\* C20: of two receive_file invocations running at once on one host in one
\* working directory, at most one is ever between its destination existence
\* test and the end of its chunk loop.
C20_ExclusiveDestination == ~(InCritical(rcv) /\ InCritical(other.rcv))

\* One invocation writes the destination; the other was started meanwhile
\* and returned from its bind.
C20_Witness ==
    /\ rcv.pc = "chunks" /\ rcv.written > 0 /\ ~net.faults
    /\ other.rcv.pc = "done" /\ ~other.rcv.bound
    /\ other.rcv.result = Res("TransferError")

\* C13: once send_file has accepted the connection receive_file made, the
\* exchange on that stream can always go on: while the two are in it, one of
\* them can take a step.  In the code both end up in read_to_end, each
\* waiting for the other to close the stream.
C13_HandshakeCannotHang ==
    ( /\ snd.peer = "recv" /\ rcv.sender = "send"
      /\ snd.pc \in {"accepted", "answer"}
      /\ rcv.pc \in {"size", "offer"} ) =>
        ENABLED (SHandshake \/ SAnswer \/ RReadSize \/ RReadOffer)

\* The payload bytes the peer has sent on the data channel: those on_message
\* has appended to received_data and those not yet delivered.
RECURSIVE TotalLen(_)
TotalLen(msgs) == IF msgs = <<>> THEN 0 ELSE Len(Head(msgs)) + TotalLen(Tail(msgs))
SentToReceiver == rcv.delivered + TotalLen(net.chan)

\* C14: receive_file returns IncompleteTransfer only if the sender stopped
\* sending before it had sent file_size bytes.  The code leaves its loop on
\* the first empty take, also when every byte has been sent and is on its
\* way to on_message.
C14_ShortOnlyWhenPeerClosed ==
    ( /\ rcv.pc = "done" /\ ~net.faults
      /\ rcv.result = IncompleteTransfer(rcv.received, rcv.file_size) ) =>
        SentToReceiver < rcv.file_size

\* C15: when the sender's chunk loop ends without a failing call, send_file
\* returns: Ok if the bytes moved equal file_size, and otherwise
\* Err(IncompleteTransfer(bytes_moved, file_size)).  The code goes back to
\* waiting for a peer when the counts differ.
C15_SenderShortfallReported ==
    [][ (snd.pc = "chunks" /\ snd'.pc # "chunks" /\ ~net.faults) =>
            /\ snd'.pc = "done"
            /\ snd'.result = IF snd'.transferred = snd.file_size
                             THEN Ok
                             ELSE IncompleteTransfer(snd'.transferred, snd.file_size)
      ]_vars

\* The size tokens among the writes of a session.
SizeWrites(wrote) == {i \in 1..Len(wrote) : wrote[i].k = "size"}

\* C16: a session of the sender never has more than one size on its stream;
\* once it has written its handshake, and so before any payload byte is
\* sent, the size is there exactly once, as the first thing written, and is
\* the 8 little-endian bytes of file_size.  The receiver creates the
\* destination and writes to it only after it has read 8 size bytes, with
\* file_size their value, and writes only to a file it has created.
C16_HeaderOrdering ==
    /\ Cardinality(SizeWrites(snd.wrote)) <= 1
    /\ (snd.pc \in {"answer", "chunks"} \/ snd.sent # <<>>) =>
          /\ SizeWrites(snd.wrote) = {1}
          /\ snd.wrote[1].v = to_le_bytes(snd.file_size)
    /\ (rcv.pc \in {"create", "chunks", "finish"} \/ rcv.created \/ rcv.written > 0) =>
          /\ Len(net.toR.hdr) = 8
          /\ rcv.file_size = from_le_bytes(net.toR.hdr)
    /\ rcv.written > 0 => rcv.created

\* A second session of one invocation has sent payload.
C16_Witness == snd.sessions >= 2 /\ snd.sent # <<>> /\ snd.peer = "foreign"

\* The receiver has written payload of a file of more than one byte
\* (reached, like C16_Witness).
C16_ReceiverCase == rcv.written > 0 /\ rcv.file_size >= 2 /\ rcv.pc = "chunks"

\* C17: receive_file does not search for ever: whenever it is in its search
\* loop it leaves the loop in the end, with a sender found or with an error,
\* also when only announcements that do not match keep arriving.  The code's
\* loop has no bound and its socket no timeout.
C17_BoundedReceiverSearch == (rcv.pc = "search") ~> (rcv.pc # "search")

\* C18: on every session after the first of an invocation, the first payload
\* byte sent is the first byte of the file.  The code does not rewind the
\* file between sessions, so a later session goes on where the last one
\* stopped reading.
C18_RetriesRestartAtZero ==
    (snd.sessions >= 2 /\ snd.sent # <<>>) => Head(snd.sent) = Head(Content(1))

\* C19: every announcement send_file broadcasts for passcode p and name f is
\* accepted by a receive_file searching for p, which takes f as the
\* destination name, also when f holds a ':'.  The code takes such an
\* announcement for one of three fields and ignores it.
C19_DiscoveryCompleteness ==
    ( /\ rcv.last = Dgram("send", Announcement(snd.passcode, snd.filename))
      /\ rcv.passcode = snd.passcode ) =>
        /\ rcv.sender = "send"
        /\ rcv.filename = snd.filename

\* C21: in every state of receive_file, for any sizes of the buffers drained by
\* channel.receive, the bytes written to the destination number at most the
\* file_size read from the header, and every IncompleteTransfer(received,
\* expected) it returns has received < expected.  The code writes all of
\* every take and tests the count only before the next take.
C21_NeverWritesPastSize ==
    /\ rcv.written <= rcv.file_size
    /\ rcv.created => Len(disk.dir[rcv.filename].data) <= rcv.file_size
    /\ rcv.result.kind = "IncompleteTransfer" =>
          rcv.result.received < rcv.result.expected

\* The addresses of the datagrams a call sent.
Targets(last) == {d.to : d \in last.sent}
\* The addresses of a stored session.
SessionAddrs(session) ==
    IF session.some THEN {session.sender_addr, session.receiver_addr} \ {NoAddr}
    ELSE {}

\* What a call of handle_message does with a message for passcode p that
\* came from addr, from the map before it to the map after it: it forwards
\* only to an address of the session stored under p; an Answer goes to the
\* address of the last Offer for p; an IceCandidate from that address goes
\* to the recorded receiver, to nobody when none is recorded, and one from
\* any other address goes to the address of the last Offer.
Routed(before, after, offered, last) ==
    LET p == last.message.passcode
        type == last.message.message_type
    IN  /\ Targets(last) \subseteq SessionAddrs(after[p])
        /\ \A d \in last.sent : d.message = last.message
        /\ type = "Offer" => last.sent = {}
        /\ (type = "Answer" /\ before[p].some) =>
              /\ Targets(last) \subseteq {offered[p]}
              /\ last.result = Ok => Targets(last) = {offered[p]}
        /\ (type = "IceCandidate" /\ before[p].some /\ last.addr = offered[p]) =>
              /\ Targets(last) \subseteq {before[p].receiver_addr} \ {NoAddr}
              /\ (last.result = Ok /\ before[p].receiver_addr # NoAddr) =>
                    Targets(last) = {before[p].receiver_addr}
        /\ (type = "IceCandidate" /\ before[p].some /\ last.addr # offered[p]) =>
              /\ Targets(last) \subseteq {offered[p]}
              /\ last.result = Ok => Targets(last) = {offered[p]}

\* A message whose passcode has no session is not forwarded, returns Ok and
\* leaves the map as it was.
Untouched(before, after, last) ==
    /\ last.sent = {}
    /\ last.result = Ok
    /\ after = before

\* C22 as stated: every call routes as above, and a message of any type
\* whose passcode has no session is not forwarded, returns Ok and leaves the
\* sessions map unchanged.  An Offer for such a passcode is what puts the
\* session into the map.
C22_RoutingIsolationAnyMessage ==
    [][ /\ Routed(sig.sessions, sig'.sessions, sig.offered, sig'.last)
        /\ ~sig.sessions[sig'.last.message.passcode].some =>
              Untouched(sig.sessions, sig'.sessions, sig'.last)
      ]_vars

\* C22 amended: every call routes as above; an Answer or IceCandidate whose
\* passcode has no session is not forwarded, returns Ok and leaves the
\* sessions map unchanged; an Offer is never forwarded, returns Ok and
\* changes the map under its own passcode only, to a session of its sender
\* with no receiver recorded.
C22_RoutingIsolation ==
    [][ LET m == sig'.last.message IN
        /\ Routed(sig.sessions, sig'.sessions, sig.offered, sig'.last)
        /\ (m.message_type # "Offer" /\ ~sig.sessions[m.passcode].some) =>
              Untouched(sig.sessions, sig'.sessions, sig'.last)
        /\ m.message_type = "Offer" =>
              /\ sig'.last.sent = {} /\ sig'.last.result = Ok
              /\ sig'.sessions =
                    [sig.sessions EXCEPT ![m.passcode] =
                         SessionInfo(m.session_id, sig'.last.addr, NoAddr)]
      ]_vars

\* After a second Offer for the passcode from another address and an Answer,
\* an IceCandidate from the new sender has gone to the recorded receiver,
\* while another passcode has a session of its own.
C22_Witness ==
    LET m == sig.last.message IN
    /\ m.message_type = "IceCandidate"
    /\ sig.last.addr = sig.offered[m.passcode]
    /\ sig.sessions[m.passcode].id = "u2"
    /\ sig.sessions[m.passcode].receiver_addr \notin {NoAddr, sig.last.addr}
    /\ Targets(sig.last) = {sig.sessions[m.passcode].receiver_addr}
    /\ \E q \in SigPasscodes \ {m.passcode} :
          /\ sig.sessions[q].some
          /\ sig.sessions[q].sender_addr # sig.last.addr

====
